---- MODULE Spec2Model ----
(***************************************************************************)
(* Model of ttforwarder (src/bot.py): a pool of four identities, the role  *)
(* assignment of the TT and BURP pipelines, the per-identity supervision   *)
(* loop (runner), the trigger task loops (tt_loop / burp_loop) with their  *)
(* cooldowns and failure counters, and the relay handlers with their dedup *)
(* sets.                                                                   *)
(*                                                                         *)
(* Time is counted in steps of StepSeconds seconds; a duration of the      *)
(* source is rounded up to whole steps.  Instead of absolute timestamps    *)
(* the model keeps, for every timestamp t the program stores, the elapsed  *)
(* time now - t, saturated at ElapsedCap (every comparison of the program  *)
(* is against a threshold of at most ElapsedCap steps).                    *)
(***************************************************************************)
EXTENDS Integers, Sequences, FiniteSets, TLC

\* ---------------------------------------------------------------- bounds
StepSeconds    == 600
MaxLost        == 1
MaxLoginFail   == 1
MaxCtl         == 1
MaxFail        == 3
MaxOtherCycles == 0
MaxStartCycles == 1
MaxMsgs        == 2
MaxLines       == 2
MaxAtt         == 9
MaxFetch       == 6

\* ------------------------------------------------------ program constants
FAIL_THRESHOLD      == 3
TT_CALL_COOLDOWN    == 180
BURP_CALL_COOLDOWN  == 600
BURP_COOLDOWN_ENV   == 600
CHECK_MAX_RETRIES   == 5
MAX_RETRIES         == 3
FETCH_MAX_RETRIES   == 5
HB_MAX_AGE          == 900
COPY_DELAY_MIN      == 5
COPY_DELAY_MAX      == 15

None == "None"

\* HB_PATH does not exist.
Absent == 0 - 1

Unlimited == 0 - 1

Bots == {"TRIBEIQ", "EYESINTHEHOOK", "HOODNARRATOR", "READYTOSPY"}

Pipelines == {"tt", "burp"}

tt_command_candidates   == <<"TRIBEIQ", "EYESINTHEHOOK">>
\* A scanner list that shares an identity with the commander list.
overlapping_scanner_candidates == <<"TRIBEIQ", "READYTOSPY">>
tt_scanner_candidates   == <<"HOODNARRATOR", "READYTOSPY">>
burp_command_candidates == <<"TRIBEIQ", "EYESINTHEHOOK">>
burp_scanner_candidates == <<"HOODNARRATOR", "READYTOSPY">>

command_candidates(p) ==
    IF p = "tt" THEN tt_command_candidates ELSE burp_command_candidates

scanner_candidates(p) ==
    IF p = "tt" THEN tt_scanner_candidates ELSE burp_scanner_candidates

\* Values of COMMAND_DELAY (seconds): the default and a larger setting.
COMMAND_DELAY_VALUES == {30, 1800}

\* random.choice([180, 300, 480]) of _attach_tt_tasks / tt_loop (seconds).
TT_INTERVALS == {180, 300, 480}

Steps(sec) == (sec + StepSeconds - 1) \div StepSeconds

\* random.uniform(0.1, 2.0) and random.uniform(5.0, 30.0): a positive
\* fraction of a step, so "diff >= interval + variation" needs one more
\* whole step than the interval.
VariationSteps == {Steps(1)}

Intervals(p) == IF p = "tt" THEN {Steps(s) : s \in TT_INTERVALS} ELSE {0}

CallCooldown(p) ==
    IF p = "tt" THEN Steps(TT_CALL_COOLDOWN) ELSE Steps(BURP_CALL_COOLDOWN)

Max(S) == CHOOSE x \in S : \A y \in S : y <= x

\* Every threshold the program compares an elapsed time with.
ElapsedCap ==
    Max({Steps(s) : s \in COMMAND_DELAY_VALUES}
        \cup {Steps(s) + v : s \in TT_INTERVALS \cup {BURP_COOLDOWN_ENV}, v \in VariationSteps}
        \cup {Steps(TT_CALL_COOLDOWN), Steps(BURP_CALL_COOLDOWN)})

VARIABLES
    runner,          \* position of runner(label): "connecting", "ready", "cooloff"
    active_bots,     \* set of labels
    bot_instances,   \* labels with an entry in the dictionary
    command_bot,     \* [p] tt_command_bot / burp_command_bot
    scanner_bot,     \* [p] tt_scanner_bot / burp_scanner_bot
    started,         \* [p][b] bot._tt_started / bot._burp_started
    tloops,          \* running task loops (records)
    bot_loop,        \* [p][b] id of bot._tt_loop / bot._burp_loop while it runs, 0 otherwise
    attach_task,     \* [b] retry index of the pending check_and_attach_tasks, -1 if none
    isMonitoring,    \* [p] isMonitoringTT / isMonitoringBurp
    cooldown,        \* [p] COMMAND_DELAY / BURP_COOLDOWN, in steps
    since_fire,      \* [p] now - last_trending_time / last_burp_time, saturated
    fired_once,      \* [p] last_trending_time # 0
    since_call,      \* [p] now - safe_command_call.last_tt_call / last_burp_call,
                     \*     saturated at the per-command cooldown
    exited,          \* os._exit(1) was called
    consec,          \* [p] history: failed trigger cycles of p since its last success
    rogue_call,      \* history: a trigger was invoked by an identity that was not the commander
    auth_rejected,   \* history: labels whose login raised an AuthError
    failover,        \* [p] history: commander reassigned by disconnect handling, no trigger since
    budget,          \* remaining events: [lost, login, ctl, fail, att, fetch, msgs,
                     \*     cycles], and bad: whether a percentage may be unparsable;
                     \*     cycles[p] < 0 is "no limit"
    burp_cycle_processed,  \* set of tokens
    processed_tweets,      \* set of tweet URLs
    processed_tt_embeds,   \* set of message ids
    handlers,        \* relay handlers suspended in their sleep before a send
    hist,            \* history of the relay: what was sent, dropped, claimed first
    heartbeat,       \* age of HB_PATH in steps (saturated), Absent before the first write
    health,          \* last run of healthcheck.py: the heartbeat it saw and its exit code
    rebuilds,        \* history: calls of recreate_http
    ctl_last,        \* history: the last control message handled and whether it was answered
    copy_delay,      \* COPY_DELAY_MIN and COPY_DELAY_MAX, in seconds
    event            \* a burp embed the gateway is delivering: its lines, the identities
                     \*     whose handler has run for it and those that relayed from it

vars == <<runner, active_bots, bot_instances, command_bot, scanner_bot, started,
          tloops, bot_loop, attach_task, isMonitoring, cooldown, since_fire,
          fired_once, since_call, exited, consec, rogue_call, auth_rejected,
          failover, budget, burp_cycle_processed, processed_tweets,
          processed_tt_embeds, handlers, hist, heartbeat, health, rebuilds,
          ctl_last, copy_delay, event>>

relay_vars == <<burp_cycle_processed, processed_tweets, processed_tt_embeds,
                handlers, hist>>

\* What only the health check and the control messages write.
env_vars == <<health, ctl_last, copy_delay, event>>

\* update_hb(): the age of the file just written.
update_hb == 0

\* timedelta(minutes=15) of healthcheck.py, in steps.
HBCap == Steps(HB_MAX_AGE)

tt_command_bot   == command_bot["tt"]
tt_scanner_bot   == scanner_bot["tt"]
burp_command_bot == command_bot["burp"]
burp_scanner_bot == scanner_bot["burp"]

\* ------------------------------------------------------------ list helpers
\* [bot for bot in cands if bot in act and bot != excl]
Available(cands, act, excl) ==
    SelectSeq(cands, LAMBDA b : b \in act /\ b # excl)

InSeq(x, s) == \E i \in 1..Len(s) : s[i] = x

\* list.index
IndexOf(x, s) == CHOOSE i \in 1..Len(s) : s[i] = x

\* A rotation that always takes the head of the list.
HeadOfRotation(x, s) == s[1]

\* available[(idx + 1) % len(available)] with 0-based idx
NextInRotation(x, s) == s[(IndexOf(x, s) % Len(s)) + 1]

\* ------------------------------------------- role state as one record value
\* The role functions are written as functions from a role state to a role
\* state, so that a handler that calls several of them composes them in the
\* order of the code.
RoleState ==
    [cmd |-> command_bot, scan |-> scanner_bot, started |-> started,
     loops |-> tloops, cur |-> bot_loop]

FreeId(s, p) ==
    CHOOSE n \in 1..(Cardinality(s.loops) + 1) :
        /\ \A l \in s.loops : l.p = p => l.id # n
        /\ \A m \in 1..(n - 1) : \E l \in s.loops : l.p = p /\ l.id = m

\* hasattr(bot, '_tt_loop') and bot._tt_loop.is_running()
is_running(s, p, b) == \E l \in s.loops : l.p = p /\ l.bot = b /\ l.id = s.cur[p][b]

\* bot._tt_loop.cancel() on a running loop
cancel_loop(s, p, b) ==
    IF is_running(s, p, b)
    THEN [s EXCEPT !.loops = {l \in s.loops : ~(l.p = p /\ l.bot = b /\ l.id = s.cur[p][b])},
                   !.cur[p][b] = 0]
    ELSE s

\* _attach_tt_tasks / _attach_burp_tasks: a new loop with its own failure
\* counter and its own interval; the loop bot._tt_loop referred to keeps running.
attach_tasks(s, p, b, ivl, var) ==
    LET n == FreeId(s, p) IN
    [s EXCEPT !.started[p][b] = TRUE,
              !.loops = s.loops \cup
                  {[id |-> n, p |-> p, bot |-> b, fails |-> 0, pc |-> "idle",
                    age |-> 0, retries |-> 0, fetch_retries |-> 0,
                    fetch_attempts |-> 0, interval |-> ivl, variation |-> var]},
              !.cur[p][b] = n]

initialize_pipeline(s, p, act) ==
    IF (s.cmd[p] = None \/ s.scan[p] = None) /\ Cardinality(act) >= 2
    THEN LET available_cmd_bots  == Available(command_candidates(p), act, "")
             available_scan_bots == Available(scanner_candidates(p), act, "")
         IN  IF Len(available_cmd_bots) > 0 /\ Len(available_scan_bots) > 0
             THEN [s EXCEPT !.cmd[p] = available_cmd_bots[1],
                            !.scan[p] = available_scan_bots[1]]
             ELSE s
    ELSE s

initialize_roles_if_needed(s, act) ==
    initialize_pipeline(initialize_pipeline(s, "tt", act), "burp", act)

rotate_roles(s, p, act, inst, ivl, var) ==
    LET old_command_bot     == s.cmd[p]
        available_cmd_bots  == Available(command_candidates(p), act, s.scan[p])
        available_scan_bots == Available(scanner_candidates(p), act, s.cmd[p])
    IN  IF Len(available_cmd_bots) > 0 /\ Len(available_scan_bots) > 0
        THEN LET new_cmd  == IF InSeq(s.cmd[p], available_cmd_bots)
                             THEN NextInRotation(s.cmd[p], available_cmd_bots)
                             ELSE available_cmd_bots[1]
                 new_scan == IF InSeq(s.scan[p], available_scan_bots)
                             THEN NextInRotation(s.scan[p], available_scan_bots)
                             ELSE available_scan_bots[1]
                 s1 == [s EXCEPT !.cmd[p] = new_cmd, !.scan[p] = new_scan]
             IN  IF old_command_bot # new_cmd
                 THEN LET s2 == IF old_command_bot \in inst
                                THEN [cancel_loop(s1, p, old_command_bot)
                                         EXCEPT !.started[p][old_command_bot] = FALSE]
                                ELSE s1
                      IN  IF new_cmd \in inst
                          THEN attach_tasks([s2 EXCEPT !.started[p][new_cmd] = FALSE],
                                            p, new_cmd, ivl, var)
                          ELSE s2
                 ELSE s1
        ELSE s

rotate_tt_roles(s, act, inst, ivl, var)   == rotate_roles(s, "tt", act, inst, ivl, var)
rotate_burp_roles(s, act, inst, ivl, var) == rotate_roles(s, "burp", act, inst, ivl, var)

Commit(s) ==
    /\ command_bot' = s.cmd
    /\ scanner_bot' = s.scan
    /\ started'     = s.started
    /\ tloops'      = s.loops
    /\ bot_loop'    = s.cur


\* ------------------------------------------------------------ relay data
Tokens   == {"T1"}
Urls     == {"U1", "U2"}
EmbedIds == {1, 2}
Authors  == {"rick", "allowed", "other"}

\* float(pct_m.group(1)): a negative and a non-negative value.
Pcts == {0 - 1, 0}

\* A line of an embed description after the extraction steps: the token (or
\* URL) and the percentage, or a line one of the "continue" tests skips.
SkipLine == [key |-> None, pct |-> 0]

NoPend == [key |-> None, pct |-> 0]

\* A line with a URL, a token and a text between the delta sign and the
\* percent sign that "[-.\d]+" matches and float() rejects ("-", "1.2.3").
BadPct == [key |-> None, pct |-> 1]

BurpItems == [key : Tokens, pct : Pcts] \cup {SkipLine}

UrlItems == [key : Urls, pct : {0}] \cup {SkipLine}

LineSeqs(S) == UNION {[1..n -> S] : n \in 0..MaxLines}

\* The description lines of a burp embed; with an unparsable percentage
\* only where the environment may write one.
BurpLines(bad) == IF bad > 0 THEN BurpItems \cup {BadPct} ELSE BurpItems

\* healthcheck.py has not run; no control message was handled.
NoRun == [hb |-> Absent, exit |-> Absent]

NoCtl == [seen |-> FALSE, auth |-> FALSE, reply |-> FALSE]

\* No event is being delivered.
NoEvent == [lines |-> <<>>, seen |-> {}, by |-> {}]

EnvInit ==
    /\ health = NoRun
    /\ rebuilds = 0
    /\ ctl_last = NoCtl
    /\ copy_delay = [min |-> COPY_DELAY_MIN, max |-> COPY_DELAY_MAX]
    /\ event = NoEvent

RelayInit ==
    /\ burp_cycle_processed = {}
    /\ processed_tweets = {}
    /\ processed_tt_embeds = {}
    /\ handlers = {}
    /\ hist = [sent     |-> [k \in Tokens \cup Urls |-> 0],
               neg_sent |-> [k \in Tokens |-> 0],
               dropped  |-> {},
               neg_lost |-> FALSE,
               first    |-> [k \in Tokens |-> "none"],
               runs     |-> [id \in EmbedIds |-> 0],
               unsent   |-> {},
               unparsed |-> {}]

\* ------------------------------------------------------------------- Init
\* The state after main() has started the four runners and each has called
\* make_bot; cds are the settings of COMMAND_DELAY considered, bud the
\* events the environment may still cause.
InitProgram(cds, bud) ==
    /\ runner        = [b \in Bots |-> "connecting"]
    /\ active_bots   = {}
    /\ bot_instances = Bots
    /\ command_bot   = [p \in Pipelines |-> None]
    /\ scanner_bot   = [p \in Pipelines |-> None]
    /\ started       = [p \in Pipelines |-> [b \in Bots |-> FALSE]]
    /\ tloops        = {}
    /\ bot_loop      = [p \in Pipelines |-> [b \in Bots |-> 0]]
    /\ attach_task   = [b \in Bots |-> -1]
    /\ isMonitoring  = [p \in Pipelines |-> TRUE]
    /\ \E cd \in cds :
           cooldown = [p \in Pipelines |->
                          IF p = "tt" THEN Steps(cd) ELSE Steps(BURP_COOLDOWN_ENV)]
    /\ since_fire    = [p \in Pipelines |-> ElapsedCap]
    /\ fired_once    = [p \in Pipelines |-> FALSE]
    /\ since_call    = [p \in Pipelines |-> CallCooldown(p)]
    /\ exited        = FALSE
    /\ consec        = [p \in Pipelines |-> 0]
    /\ rogue_call    = FALSE
    /\ auth_rejected = {}
    /\ failover      = [p \in Pipelines |-> FALSE]
    /\ RelayInit
    /\ EnvInit
    /\ heartbeat     = Absent
    /\ budget \in bud

\* Budgets in which one pipeline may fire cyc times (without limit when
\* cyc is negative) and the other at most MaxOtherCycles times.
Budgets(lost, login, ctl, fail, cyc) ==
    {[lost |-> lost, login |-> login, ctl |-> ctl, fail |-> fail, att |-> 0,
      fetch |-> 0, bad |-> 0, msgs |-> 0,
      cycles |-> [p \in Pipelines |-> IF p = f THEN cyc ELSE MaxOtherCycles]]
        : f \in Pipelines}

\* From the start of the program: one identity is lost or one login fails,
\* and one pipeline completes MaxStartCycles trigger cycles.
Init ==
    InitProgram({30}, Budgets(MaxLost, 0, 0, 0, MaxStartCycles)
                          \cup Budgets(0, MaxLoginFail, 0, 0, MaxStartCycles))

\* --------------------------------------------------------------- on_ready
\* on_ready: write the first heartbeat, add the label to active_bots,
\* initialize the roles, schedule check_and_attach_tasks.
on_ready(b) ==
    /\ ~exited
    /\ heartbeat' = update_hb
    /\ UNCHANGED <<relay_vars, env_vars, rebuilds>>
    /\ runner[b] = "connecting"
    /\ runner' = [runner EXCEPT ![b] = "ready"]
    /\ active_bots' = active_bots \cup {b}
    /\ Commit(initialize_roles_if_needed(RoleState, active_bots \cup {b}))
    /\ attach_task' = [attach_task EXCEPT ![b] = 0]
    /\ UNCHANGED <<bot_instances, isMonitoring, cooldown, since_fire, fired_once,
                   since_call, exited, consec, rogue_call, auth_rejected,
                   failover, budget>>

\* The attach part of one pass of check_and_attach_tasks (lines 358-366 and
\* 378-384), for bot b.
attach_if_commander(s, b, ivl, var, bvar) ==
    LET s1 == IF b = s.cmd["tt"] /\ ~s.started["tt"][b]
              THEN attach_tasks(s, "tt", b, ivl, var) ELSE s
    IN  IF b = s1.cmd["burp"] /\ ~s1.started["burp"][b]
        THEN attach_tasks(s1, "burp", b, 0, bvar) ELSE s1

\* One pass of the retry loop of check_and_attach_tasks, or its final check.
check_and_attach_tasks(b) ==
    /\ ~exited
    /\ UNCHANGED <<relay_vars, env_vars, heartbeat, rebuilds>>
    /\ attach_task[b] >= 0
    /\ \E ivl \in Intervals("tt"), var \in VariationSteps, bvar \in VariationSteps :
         IF attach_task[b] < CHECK_MAX_RETRIES
         THEN LET s == initialize_roles_if_needed(RoleState, active_bots) IN
              IF s.cmd["tt"] = None \/ s.cmd["burp"] = None
              THEN /\ Commit(s)
                   /\ attach_task' = [attach_task EXCEPT ![b] = @ + 1]
              ELSE /\ Commit(attach_if_commander(s, b, ivl, var, bvar))
                   /\ attach_task' = [attach_task EXCEPT ![b] = -1]
         ELSE /\ IF command_bot["tt"] = None \/ command_bot["burp"] = None
                 THEN Commit(RoleState)
                 ELSE Commit(attach_if_commander(RoleState, b, ivl, var, bvar))
              /\ attach_task' = [attach_task EXCEPT ![b] = -1]
    /\ UNCHANGED <<runner, active_bots, bot_instances, isMonitoring, cooldown,
                   since_fire, fired_once, since_call, exited, consec, rogue_call,
                   auth_rejected, failover, budget>>

\* ----------------------------------------------------------------- runner
\* The finally block of runner (lines 820-874), up to the cool-off sleep.
\* Only the loop bot._tt_loop / bot._burp_loop refers to is cancelled.  Any
\* other loop of the bot object that is being closed keeps running: its
\* passes return at the guard (bot.is_closed()) from now on, and a pass in
\* flight meets the closed client at its next await.  The pending
\* check_and_attach_tasks can only attach to the closed object and is
\* dropped here.
closed_loop(l) ==
    [l EXCEPT !.pc = "closed", !.fails = 0, !.age = 0, !.retries = 0,
              !.interval = 0, !.variation = 0]

\* A cleanup that clears the commander roles of the identity only.
clear_command_roles(s, b) ==
    [s EXCEPT !.cmd = [p \in Pipelines |-> IF s.cmd[p] = b THEN None ELSE s.cmd[p]]]

\* "if tt_command_bot == label: tt_command_bot = None" and the three tests
\* after it (lines 847-865).
clear_roles(s, b) ==
    [s EXCEPT !.cmd  = [p \in Pipelines |-> IF s.cmd[p] = b THEN None ELSE s.cmd[p]],
              !.scan = [p \in Pipelines |-> IF s.scan[p] = b THEN None ELSE s.scan[p]]]

runner_cleanup(b) ==
    LET act == active_bots \ {b}
        s0  == RoleState
        s1  == cancel_loop(cancel_loop(s0, "tt", b), "burp", b)
        roles_changed == \E p \in Pipelines : s0.cmd[p] = b \/ s0.scan[p] = b
        s2  == clear_roles(s1, b)
        s3  == IF roles_changed THEN initialize_roles_if_needed(s2, act) ELSE s2
        s4  == IF b \in bot_instances THEN s3 ELSE s0
        s5  == [s4 EXCEPT !.loops = {IF l.bot = b THEN closed_loop(l) ELSE l : l \in s4.loops},
                          !.started = [p \in Pipelines |-> [s4.started[p] EXCEPT ![b] = FALSE]]]
    IN  /\ active_bots' = act
        /\ bot_instances' = bot_instances \ {b}
        /\ Commit(s5)
        /\ attach_task' = [attach_task EXCEPT ![b] = -1]
        /\ runner' = [runner EXCEPT ![b] = "cooloff"]
        /\ failover' = [p \in Pipelines |->
                           IF command_bot[p] = b /\ s5.cmd[p] # None
                           THEN TRUE ELSE failover[p]]

\* bot.connect returns or raises while the identity is ready.
Disconnect(b) ==
    /\ ~exited
    /\ UNCHANGED <<relay_vars, env_vars, heartbeat, rebuilds>>
    /\ runner[b] = "ready"
    /\ budget.lost > 0
    /\ budget' = [budget EXCEPT !.lost = @ - 1]
    /\ runner_cleanup(b)
    /\ UNCHANGED <<isMonitoring, cooldown, since_fire, fired_once, since_call,
                   exited, consec, rogue_call, auth_rejected>>

\* bot.login raises: a rejected credential ("auth") or a transport error ("net").
LoginFails(b, err) ==
    /\ ~exited
    /\ UNCHANGED <<relay_vars, env_vars, heartbeat, rebuilds>>
    /\ runner[b] = "connecting"
    /\ budget.login > 0
    /\ budget' = [budget EXCEPT !.login = @ - 1]
    /\ auth_rejected' = IF err = "auth" THEN auth_rejected \cup {b} ELSE auth_rejected
    /\ runner_cleanup(b)
    /\ UNCHANGED <<isMonitoring, cooldown, since_fire, fired_once, since_call,
                   exited, consec, rogue_call>>

\* A runner for which a rejected credential is terminal.
ReconnectUnlessRejected(b) ==
    /\ ~exited
    /\ UNCHANGED <<relay_vars, env_vars, heartbeat, rebuilds>>
    /\ runner[b] = "cooloff"
    /\ b \notin auth_rejected
    /\ runner' = [runner EXCEPT ![b] = "connecting"]
    /\ bot_instances' = bot_instances \cup {b}
    /\ UNCHANGED <<active_bots, command_bot, scanner_bot, started, tloops, bot_loop,
                   attach_task, isMonitoring, cooldown, since_fire, fired_once,
                   since_call, exited, consec, rogue_call, auth_rejected,
                   failover, budget>>

\* After asyncio.sleep(5): the next pass of "while True", make_bot(label).
Reconnect(b) ==
    /\ ~exited
    /\ UNCHANGED <<relay_vars, env_vars, heartbeat, rebuilds>>
    /\ runner[b] = "cooloff"
    /\ runner' = [runner EXCEPT ![b] = "connecting"]
    /\ bot_instances' = bot_instances \cup {b}
    /\ UNCHANGED <<active_bots, command_bot, scanner_bot, started, tloops, bot_loop,
                   attach_task, isMonitoring, cooldown, since_fire, fired_once,
                   since_call, exited, consec, rogue_call, auth_rejected,
                   failover, budget>>


\* ------------------------------------------------------------- task loops
Sat(n) == IF n < ElapsedCap THEN n + 1 ELSE ElapsedCap

\* threshold = current_interval + current_variation (TT),
\*             BURP_COOLDOWN + current_variation (BURP)
Threshold(l) ==
    (IF l.p = "tt" THEN l.interval ELSE cooldown[l.p]) + l.variation

\* First part of one pass of tt_loop / burp_loop: the guard (lines 674, 751),
\* the cooldown floor (682, 759) and the interval test (690, 767), all taken
\* at current_time.  A pass that returns early changes nothing.
MayFire(l) ==
    /\ isMonitoring[l.p]
    /\ l.bot \in bot_instances
    /\ started[l.p][l.bot]
    /\ command_bot[l.p] = l.bot
    /\ ~(since_fire[l.p] < cooldown[l.p])
    /\ (~fired_once[l.p] \/ since_fire[l.p] >= Threshold(l))

LoopGate(l) ==
    /\ ~exited
    /\ UNCHANGED <<relay_vars, env_vars, heartbeat, rebuilds>>
    /\ l \in tloops
    /\ l.pc = "idle"
    /\ MayFire(l)
    /\ budget.cycles[l.p] # 0
    /\ budget' = [budget EXCEPT !.cycles[l.p] = IF @ > 0 THEN @ - 1 ELSE @]
    /\ tloops' = (tloops \ {l}) \cup
                     {[l EXCEPT !.pc = "firing", !.age = 0, !.fetch_retries = 0,
                                !.fetch_attempts = 0]}
    /\ failover' = [failover EXCEPT ![l.p] = FALSE]
    /\ UNCHANGED <<runner, active_bots, bot_instances, command_bot, scanner_bot,
                   started, bot_loop, attach_task, isMonitoring, cooldown,
                   since_fire, fired_once, since_call, exited, consec, rogue_call,
                   auth_rejected>>

\* What one cmd.__call__ does: returns, raises a NET_ERR, raises another
\* exception.
AttemptOutcomes == {"ok", "net_err", "other_err"}

\* A counter that counts the attempts of the failed cycle.
FailsAfterAttempts(l) == l.fails + MAX_RETRIES

\* "tt_fails += 1" (lines 723, 799): the counter after one failed cycle.
FailsAfter(l) == l.fails + 1

\* except NET_ERR (lines 722-728, 798-804): count, rebuild the HTTP client,
\* exit at FAIL_THRESHOLD.
LoopFailure(l) ==
    /\ tloops' = (tloops \ {l}) \cup
                     {[l EXCEPT !.pc = "idle", !.age = 0, !.retries = 0,
                                !.fails = FailsAfter(l)]}
    /\ rebuilds' = rebuilds + 1
    /\ exited' = (FailsAfter(l) >= FAIL_THRESHOLD)
    /\ consec' = [consec EXCEPT ![l.p] = IF @ < FAIL_THRESHOLD THEN @ + 1 ELSE @]
    /\ UNCHANGED <<command_bot, scanner_bot, started, bot_loop, since_fire,
                   fired_once, heartbeat>>

\* result is not None (lines 703-716, 780-792).
LoopSuccess(l) ==
    /\ \E ivl \in Intervals(l.p), var \in VariationSteps,
          nivl \in Intervals(l.p), nvar \in VariationSteps :
         LET done == [l EXCEPT !.pc = "idle", !.age = 0, !.fails = 0, !.retries = 0,
                               !.interval = ivl, !.variation = var]
             s0   == [RoleState EXCEPT !.loops = (tloops \ {l}) \cup {done}]
         IN  Commit(rotate_roles(s0, l.p, active_bots, bot_instances, nivl, nvar))
    /\ since_fire' = [since_fire EXCEPT ![l.p] = l.age]
    /\ fired_once' = [fired_once EXCEPT ![l.p] = TRUE]
    /\ consec' = [consec EXCEPT ![l.p] = 0]
    /\ heartbeat' = update_hb
    /\ UNCHANGED <<exited, budget, rebuilds>>

\* An exception that is not a NET_ERR leaves tt_loop / burp_loop: the task
\* of the loop ends with it.
LoopDies(l) ==
    /\ tloops' = tloops \ {l}
    /\ UNCHANGED <<command_bot, scanner_bot, started, bot_loop, since_fire,
                   fired_once, exited, consec, heartbeat, rebuilds>>

\* An attempt loop that allows one attempt more than max_retries.
attempt_once_more(retries, out) ==
    IF out = "ok" THEN [do |-> "return", retries |-> retries]
    ELSE IF out = "net_err"
    THEN IF retries + 1 <= MAX_RETRIES
         THEN [do |-> "retry", retries |-> retries + 1]
         ELSE [do |-> "raise", retries |-> retries + 1]
    ELSE [do |-> "propagate", retries |-> retries]

\* One pass of "while retries < max_retries" (lines 149-162) for the outcome
\* of cmd.__call__: return the result, sleep and try again, raise
\* last_error after the last attempt, or let another exception through.
attempt(retries, out) ==
    IF out = "ok" THEN [do |-> "return", retries |-> retries]
    ELSE IF out = "net_err"
    THEN IF retries + 1 < MAX_RETRIES
         THEN [do |-> "retry", retries |-> retries + 1]
         ELSE [do |-> "raise", retries |-> retries + 1]
    ELSE [do |-> "propagate", retries |-> retries]

\* An attempt that raises counts against the budget of such attempts.
Charged ==
    /\ budget.att > 0
    /\ budget' = [budget EXCEPT !.att = @ - 1]

\* cmd.__call__ of loop l ends with out, inside safe_command_call.
Attempt(l, out) ==
    LET a == attempt(l.retries, out) IN
    \/ /\ a.do = "return"
       /\ LoopSuccess(l)
    \/ /\ a.do = "retry"
       /\ Charged
       /\ tloops' = (tloops \ {l}) \cup
                        {[l EXCEPT !.pc = "retrying", !.retries = a.retries]}
       /\ UNCHANGED <<command_bot, scanner_bot, started, bot_loop, since_fire,
                      fired_once, exited, consec, heartbeat, rebuilds>>
    \/ /\ a.do = "raise"
       /\ Charged
       /\ LoopFailure(l)
    \/ /\ a.do = "propagate"
       /\ Charged
       /\ LoopDies(l)

\* After asyncio.sleep(backoff): the next attempt of safe_command_call.
LoopRetry(l, outcome) ==
    /\ l.pc = "retrying"
    /\ outcome \in AttemptOutcomes
    /\ Attempt(l, outcome)
    /\ UNCHANGED <<since_call, rogue_call>>

\* Second part of the pass: fetch_channel, safe_fetch_commands and
\* safe_command_call with the outcome of the transport.
\*   "fetch_err": fetch_channel raises a NET_ERR
\*   "no_cmd"   : the command is not among the fetched commands
\*   "ok", "net_err", "other_err": outcome of one cmd.__call__
\* safe_command_call discards the call (returns None) inside the per-command
\* cooldown (lines 129-144) and otherwise records the time of the call.
\* A cooldown test that lets every call through.
NeverInCooldown(p) == FALSE

\* "if time_since_last_call < 180" / "< 600" in safe_command_call (lines
\* 130-131, 139-140), on the one last_tt_call / last_burp_call of the process.
InCooldown(p) == since_call[p] < CallCooldown(p)

\* A discard that is recorded as a fire of the command.
LoopDiscardRecorded(l) ==
    /\ tloops' = (tloops \ {l}) \cup {[l EXCEPT !.pc = "idle", !.age = 0]}
    /\ since_fire' = [since_fire EXCEPT ![l.p] = l.age]
    /\ fired_once' = [fired_once EXCEPT ![l.p] = TRUE]
    /\ UNCHANGED <<command_bot, scanner_bot, started, bot_loop, exited, consec,
                   heartbeat, rebuilds>>

\* No command found ("if cmd:" false) or result is None (lines 717-718,
\* 793-794): the pass ends and nothing is recorded.
LoopDiscard(l) ==
    /\ tloops' = (tloops \ {l}) \cup {[l EXCEPT !.pc = "idle", !.age = 0]}
    /\ UNCHANGED <<command_bot, scanner_bot, started, bot_loop, since_fire,
                   fired_once, exited, consec, heartbeat, rebuilds>>

\* What one ch.application_commands() does when it does not return the list.
FetchOutcomes == {"fetch_value_err", "fetch_net_err"}

\* One failed pass of "while retries < max_retries" in safe_fetch_commands
\* (lines 166-180): ValueError sleeps and tries again with retries as it was,
\* a NET_ERR counts, and the fifth NET_ERR ends the loop with [].
safe_fetch_commands(retries, out) ==
    IF out = "fetch_value_err"
    THEN [do |-> "again", retries |-> retries]
    ELSE IF retries + 1 < FETCH_MAX_RETRIES
         THEN [do |-> "again", retries |-> retries + 1]
         ELSE [do |-> "empty", retries |-> retries + 1]

\* A failed attempt of safe_fetch_commands inside a pass: the pass waits in
\* the fetch loop, or gets [] and ends with no command found (line 696).
\* fetch_attempts counts the attempts of the call, up to one past max_retries.
LoopFetch(l, outcome) ==
    /\ l.pc = "firing"
    /\ outcome \in FetchOutcomes
    /\ budget.fetch > 0
    /\ l.fetch_attempts <= FETCH_MAX_RETRIES
    /\ budget' = [budget EXCEPT !.fetch = @ - 1]
    /\ LET f == safe_fetch_commands(l.fetch_retries, outcome)
           m == [l EXCEPT !.fetch_retries = f.retries,
                          !.fetch_attempts = l.fetch_attempts + 1] IN
         tloops' = (tloops \ {l}) \cup
                      {IF f.do = "again" THEN m ELSE [m EXCEPT !.pc = "idle", !.age = 0]}
    /\ UNCHANGED <<command_bot, scanner_bot, started, bot_loop, since_fire,
                   fired_once, since_call, exited, consec, rogue_call,
                   heartbeat, rebuilds>>

LoopCall(l, outcome) ==
    /\ ~exited
    /\ UNCHANGED <<relay_vars, env_vars>>
    /\ l \in tloops
    /\ \/ /\ l.pc = "firing"
          /\ outcome = "fetch_err"
          /\ budget.fail > 0
          /\ budget' = [budget EXCEPT !.fail = @ - 1]
          /\ LoopFailure(l)
          /\ UNCHANGED <<since_call, rogue_call>>
       \/ /\ l.pc = "firing"
          /\ \/ outcome = "no_cmd"
             \/ outcome \in AttemptOutcomes /\ InCooldown(l.p)
          /\ LoopDiscard(l)
          /\ UNCHANGED <<since_call, rogue_call, budget>>
       \/ /\ l.pc = "firing"
          /\ outcome \in AttemptOutcomes
          /\ ~InCooldown(l.p)
          /\ since_call' = [since_call EXCEPT ![l.p] = 0]
          /\ rogue_call' = (rogue_call \/ command_bot[l.p] # l.bot
                                       \/ l.bot \notin active_bots)
          /\ Attempt(l, outcome)
       \/ LoopRetry(l, outcome)
       \/ LoopFetch(l, outcome)
    /\ UNCHANGED <<runner, active_bots, bot_instances, attach_task, isMonitoring,
                   cooldown, auth_rejected, failover>>

\* One step of time.
Tick ==
    /\ ~exited
    /\ UNCHANGED <<relay_vars, env_vars, rebuilds>>
    /\ since_fire' = [p \in Pipelines |-> Sat(since_fire[p])]
    /\ since_call' = [p \in Pipelines |->
                          IF since_call[p] < CallCooldown(p) THEN since_call[p] + 1
                          ELSE since_call[p]]
    /\ tloops' = {IF l.pc # "idle" THEN [l EXCEPT !.age = Sat(l.age)] ELSE l : l \in tloops}
    /\ heartbeat' = IF heartbeat = Absent \/ heartbeat >= HBCap THEN heartbeat
                    ELSE heartbeat + 1
    /\ UNCHANGED <<runner, active_bots, bot_instances, command_bot, scanner_bot,
                   started, bot_loop, attach_task, isMonitoring, cooldown, fired_once,
                   exited, consec, rogue_call, auth_rejected, failover, budget>>

\* --------------------------------------------------------- control messages
\* The channel whose control branch handles the commands of pipeline p
\* (TT_CH_ID, BURP_CH_ID).
ControlChan(p) == IF p = "tt" THEN "TT" ELSE "BURP"

ControlCmds == {"start", "stop", "config"}

\* A sender of ALLOWED_AUTHORS and one that is not.
ControlAuthors == {"allowed", "other"}

\* An allow-list that lets every sender through.
any_author(author) == TRUE

\* "msg.author.id in ALLOWED_AUTHORS" (lines 485, 510)
is_allowed(author) == author = "allowed"

\* The arguments of "tt config" / "burp config": the seconds int() returns,
\* or text for which the unpacking or int() raises.
Invalid == 0 - 1

\* The words after "tt config" / "burp config": each the seconds int()
\* returns or Invalid; complete and convertible, too few, or with one word
\* that does not convert.
ConfigArgs(p) ==
    IF p = "tt"
    THEN {<<30, COPY_DELAY_MIN, COPY_DELAY_MAX>>, <<1800, 10, 35>>, <<1800, 10>>,
          <<Invalid, 10, 35>>, <<1800, Invalid, 35>>, <<1800, 10, Invalid>>}
    ELSE {<<BURP_COOLDOWN_ENV>>, <<Invalid>>, <<>>}

\* The number of words the command reads.
ConfigWords(p) == IF p = "tt" THEN 3 ELSE 1

\* An update that stores each word as soon as it has converted.
config_piecewise(p, args, cur) ==
    LET n   == ConfigWords(p)
        bad == {i \in 1..n : i > Len(args) \/ args[i] = Invalid}
        ok(i) == \A j \in 1..i : j \notin bad
    IN  [raised |-> bad # {},
         delay  |-> IF ok(1) THEN Steps(args[1]) ELSE cur.delay,
         min    |-> IF p = "tt" /\ ok(2) THEN args[2] ELSE cur.min,
         max    |-> IF p = "tt" /\ ok(3) THEN args[3] ELSE cur.max]

\* "_, _, cd, dmin, dmax = txt.split()[:5]; globals().update(COMMAND_DELAY=
\* int(cd), ...)" (lines 500-505) and "globals().update(BURP_COOLDOWN=
\* int(txt.split()[2]))" (line 524): the unpacking, the index and every int()
\* are evaluated before update() is called, and any of them may raise.
config_update(p, args, cur) ==
    LET n == ConfigWords(p) IN
    IF Len(args) < n \/ \E i \in 1..n : args[i] = Invalid
    THEN [raised |-> TRUE, delay |-> cur.delay, min |-> cur.min, max |-> cur.max]
    ELSE [raised |-> FALSE,
          delay  |-> Steps(args[1]),
          min    |-> IF p = "tt" THEN args[2] ELSE cur.min,
          max    |-> IF p = "tt" THEN args[3] ELSE cur.max]

\* The settings "tt config" / "burp config" may write, as they are.
Settings(p) == [delay |-> cooldown[p], min |-> copy_delay.min, max |-> copy_delay.max]

\* "tt start" / "burp start" from an allowed author (lines 487-495, 511-519),
\* handled by bot b.
ControlStart(p, b) ==
    /\ isMonitoring' = [isMonitoring EXCEPT ![p] = TRUE]
    /\ \E ivl \in Intervals(p), var \in VariationSteps :
         IF b = command_bot[p]
         THEN Commit(attach_tasks([RoleState EXCEPT !.started[p][b] = FALSE], p, b, ivl, var))
         ELSE Commit(RoleState)
    /\ UNCHANGED <<cooldown, copy_delay>>

\* "tt stop" / "burp stop" (lines 496-498, 520-522).
ControlStop(p, b) ==
    /\ isMonitoring' = [isMonitoring EXCEPT ![p] = FALSE]
    /\ UNCHANGED <<command_bot, scanner_bot, started, tloops, bot_loop, cooldown,
                   copy_delay>>

\* "tt config ..." / "burp config ..." (lines 499-507, 523-526).
ControlConfig(p, b, arg) ==
    /\ LET u == config_update(p, arg, Settings(p)) IN
         /\ cooldown' = [cooldown EXCEPT ![p] = u.delay]
         /\ copy_delay' = [min |-> u.min, max |-> u.max]
    /\ UNCHANGED <<command_bot, scanner_bot, started, tloops, bot_loop, isMonitoring>>

\* The control branches of on_message (lines 485-526) of bot b for a message
\* of author in channel chan whose text is the command cmd of pipeline p.
\* A message the branches do not handle reaches the relay branches, which
\* find nothing to relay in it.
on_control(b, chan, author, p, cmd, arg) ==
    LET handled == chan = ControlChan(p) /\ is_allowed(author)
        raises  == cmd = "config" /\ config_update(p, arg, Settings(p)).raised
    IN  /\ ~exited
        /\ runner[b] = "ready"
        /\ budget.ctl > 0
        /\ budget' = [budget EXCEPT !.ctl = @ - 1]
        /\ cmd = "config" \/ arg = <<>>
        /\ ctl_last' = [seen  |-> TRUE,
                        auth  |-> chan = ControlChan(p) /\ author = "allowed",
                        reply |-> handled /\ ~raises]
        /\ IF handled
           THEN CASE cmd = "start"  -> ControlStart(p, b)
                  [] cmd = "stop"   -> ControlStop(p, b)
                  [] cmd = "config" -> ControlConfig(p, b, arg)
           ELSE UNCHANGED <<command_bot, scanner_bot, started, tloops, bot_loop,
                            isMonitoring, cooldown, copy_delay>>
        /\ UNCHANGED <<relay_vars, health, heartbeat, rebuilds, event>>
        /\ UNCHANGED <<runner, active_bots, bot_instances, attach_task, since_fire,
                       fired_once, since_call, exited, consec, rogue_call,
                       auth_rejected, failover>>

\* ------------------------------------------------------------ health check
\* healthcheck.py: exit code 1 when the file is missing, otherwise 0 when
\* its age is below 15 minutes and 1 when it is not.
healthcheck_lenient(hb) ==
    IF hb = Absent THEN 1 ELSE IF hb <= HBCap THEN 0 ELSE 1

healthcheck(hb) ==
    IF hb = Absent THEN 1 ELSE IF hb < HBCap THEN 0 ELSE 1

\* A run of the health check.
HealthCheck ==
    /\ health' = [hb |-> heartbeat, exit |-> healthcheck(heartbeat)]
    /\ UNCHANGED <<relay_vars, heartbeat, rebuilds, ctl_last, copy_delay, event>>
    /\ UNCHANGED <<runner, active_bots, bot_instances, command_bot, scanner_bot,
                   started, tloops, bot_loop, attach_task, isMonitoring, cooldown,
                   since_fire, fired_once, since_call, exited, consec, rogue_call,
                   auth_rejected, failover, budget>>

\* ------------------------------------------------------------ relay handlers
\* Dedup tests that never, or regardless of the sign, find a key.
never_seen(key, pct, seen) == FALSE

sign_blind_seen(key, pct, seen) == key \in seen

\* "if pct >= 0 and token in burp_cycle_processed: continue" (lines 427, 563)
burp_seen(key, pct, seen) == pct >= 0 /\ key \in seen

\* "if url in processed_tweets: continue" (lines 464, 602, 616)
tweet_seen(key, pct, seen) == key \in seen

\* The "for line in ..." loop up to its next await: the lines that are
\* skipped, then the first line that is claimed (added to the set and
\* handed to the sleep before its send).
RECURSIVE burp_scan(_, _)
burp_scan(lines, seen) ==
    IF lines = <<>>
    THEN [seen |-> seen, rest |-> <<>>, pend |-> NoPend, raised |-> FALSE]
    ELSE LET ln == Head(lines) IN
         IF ln = BadPct
         THEN [seen |-> seen, rest |-> Tail(lines), pend |-> NoPend, raised |-> TRUE]
         ELSE IF ln.key = None \/ burp_seen(ln.key, ln.pct, seen)
         THEN burp_scan(Tail(lines), seen)
         ELSE [seen |-> seen \cup {ln.key}, rest |-> Tail(lines), pend |-> ln,
               raised |-> FALSE]

RECURSIVE tweet_scan(_, _)
tweet_scan(lines, seen) ==
    IF lines = <<>>
    THEN [seen |-> seen, rest |-> <<>>, pend |-> NoPend, raised |-> FALSE]
    ELSE LET ln == Head(lines) IN
         IF ln.key = None \/ tweet_seen(ln.key, ln.pct, seen)
         THEN tweet_scan(Tail(lines), seen)
         ELSE [seen |-> seen \cup {ln.key}, rest |-> Tail(lines), pend |-> ln,
               raised |-> FALSE]

\* The tokens of the lines a burp handler would still relay.
Eligible(lines, seen) ==
    {lines[i].key : i \in {j \in 1..Len(lines) :
                      /\ lines[j].key # None
                      /\ ~burp_seen(lines[j].key, lines[j].pct, seen)}}

\* The URLs of the lines a tweet handler has not recorded.
Fresh(lines, seen) ==
    {lines[i].key : i \in {j \in 1..Len(lines) :
                      lines[j].key # None /\ lines[j].key \notin seen}}

\* History of one scan r of lines: the occurrences it passed over, the
\* sign of the first claim of a token, and the tokens of the lines left
\* behind when float() raised.
Passed(lines, r) ==
    LET n == Len(lines) - Len(r.rest)
    IN  IF r.pend = NoPend THEN SubSeq(lines, 1, n) ELSE SubSeq(lines, 1, n - 1)

Recorded(kind, lines, r) ==
    LET over == Passed(lines, r) IN
    [hist EXCEPT
        !.dropped  = @ \cup {over[i].key : i \in {j \in 1..Len(over) :
                                 over[j].key # None /\ over[j].pct >= 0}},
        !.neg_lost = @ \/ (kind = "burp" /\ \E i \in 1..Len(over) :
                                 over[i].key # None /\ over[i].pct < 0),
        !.first    = IF kind = "burp" /\ r.pend # NoPend
                     THEN [@ EXCEPT ![r.pend.key] =
                              IF @ # "none" THEN @
                              ELSE IF r.pend.pct < 0 THEN "neg" ELSE "nonneg"]
                     ELSE @,
        !.unparsed = IF r.raised THEN @ \cup Eligible(r.rest, r.seen) ELSE @]

Count(n) == IF n < 2 THEN n + 1 ELSE 2

FreeHandlerId ==
    CHOOSE n \in 1..(Cardinality(handlers) + 1) : \A h \in handlers : h.id # n

\* The handler coroutine of bot b from the start of its line loop to its
\* first await, or to its end.
Suspended(b, kind, dest, r) ==
    IF r.pend = NoPend THEN handlers
    ELSE handlers \cup {[id |-> FreeHandlerId, bot |-> b, kind |-> kind,
                         rest |-> r.rest, pend |-> r.pend, dest |-> dest]}

burp_relay(b, lines) ==
    LET r == burp_scan(lines, burp_cycle_processed) IN
    /\ burp_cycle_processed' = r.seen
    /\ handlers' = Suspended(b, "burp", "GL", r)
    /\ hist' = Recorded("burp", lines, r)
    /\ UNCHANGED <<processed_tweets, processed_tt_embeds>>

\* "TT embed tweets": the embed id first, then the lines (452-472, 590-610).
\* on_message_edit does not test after.embeds: without an embed the id is
\* recorded and embeds[0] raises.
embed_relay(b, m) ==
    IF m.id \in processed_tt_embeds
    THEN UNCHANGED relay_vars
    ELSE /\ processed_tt_embeds' = processed_tt_embeds \cup {m.id}
         /\ IF m.embeds
            THEN LET r == tweet_scan(m.lines, processed_tweets) IN
                 /\ processed_tweets' = r.seen
                 /\ handlers' = Suspended(b, "embed", "X", r)
                 /\ hist' = [Recorded("embed", m.lines, r) EXCEPT !.runs[m.id] = Count(@)]
            ELSE UNCHANGED <<processed_tweets, handlers, hist>>
         /\ UNCHANGED burp_cycle_processed

\* "Raw tweets" (613-629): the first URL that is new is sent, and the
\* handler returns after that send.
raw_relay(b, m) ==
    LET r == tweet_scan(m.lines, processed_tweets) IN
    /\ processed_tweets' = r.seen
    /\ handlers' = Suspended(b, "raw", IF m.addr THEN "CALL" ELSE "X", r)
    /\ hist' = Recorded("raw", m.lines, r)
    /\ UNCHANGED <<burp_cycle_processed, processed_tt_embeds>>

Chans == {"BURP", "CMD", "TT"}

\* Delivery of an event to a connected bot; a message that starts a relay
\* counts against the budget.
Delivered(b, relayed) ==
    /\ ~exited
    /\ runner[b] = "ready"
    /\ IF relayed
       THEN /\ budget.msgs > 0
            /\ budget' = [budget EXCEPT !.msgs = @ - 1]
       ELSE UNCHANGED budget
    /\ UNCHANGED <<runner, active_bots, bot_instances, command_bot, scanner_bot,
                   started, tloops, bot_loop, attach_task, isMonitoring, cooldown,
                   since_fire, fired_once, since_call, exited, consec, rogue_call,
                   auth_rejected, failover, env_vars, heartbeat, rebuilds>>

\* The condition of the burp branch of on_message_edit (lines 392-398), as
\* bot b evaluates it when its handler runs.
is_burp_edit(b, chan, author, embeds) ==
    /\ isMonitoring["burp"] /\ b = burp_scanner_bot
    /\ author = "rick" /\ chan = "BURP" /\ embeds

\* The trigger application edits a message of the burp channel: the
\* gateway will deliver the event to every connected identity.
Post(lines) ==
    /\ ~exited
    /\ event = NoEvent
    /\ lines # <<>>
    /\ budget.msgs > 0
    /\ budget' = [budget EXCEPT !.msgs = @ - 1]
    /\ event' = [lines |-> lines, seen |-> {}, by |-> {}]
    /\ UNCHANGED <<relay_vars, health, ctl_last, copy_delay, heartbeat, rebuilds>>
    /\ UNCHANGED <<runner, active_bots, bot_instances, command_bot, scanner_bot,
                   started, tloops, bot_loop, attach_task, isMonitoring, cooldown,
                   since_fire, fired_once, since_call, exited, consec, rogue_call,
                   auth_rejected, failover>>

\* The on_message_edit handler of bot b runs for the event being delivered
\* (lines 391-446): each identity has its own connection and its handler
\* is a task of its own, so other tasks run between two of them.
Deliver(b) ==
    /\ ~exited
    /\ event # NoEvent
    /\ runner[b] = "ready"
    /\ b \notin event.seen
    /\ IF is_burp_edit(b, "BURP", "rick", TRUE)
       THEN /\ burp_relay(b, event.lines)
            /\ event' = [event EXCEPT !.seen = @ \cup {b}, !.by = @ \cup {b}]
       ELSE /\ UNCHANGED relay_vars
            /\ event' = [event EXCEPT !.seen = @ \cup {b}]
    /\ UNCHANGED <<health, ctl_last, copy_delay, heartbeat, rebuilds, budget>>
    /\ UNCHANGED <<runner, active_bots, bot_instances, command_bot, scanner_bot,
                   started, tloops, bot_loop, attach_task, isMonitoring, cooldown,
                   since_fire, fired_once, since_call, exited, consec, rogue_call,
                   auth_rejected, failover>>

\* on_message_edit (391-473) for a message of the given channel and author,
\* with or without an embed; the id and the description lines are drawn
\* where the handler reads them.
on_message_edit(b, chan, author, embeds) ==
    LET burp == is_burp_edit(b, chan, author, embeds)
        tt   == /\ isMonitoring["tt"] /\ b = tt_scanner_bot
                /\ author = "rick" /\ chan = "CMD"
    IN  /\ Delivered(b, burp \/ tt)
        /\ IF burp
           THEN \E lines \in LineSeqs(BurpLines(budget.bad)) : burp_relay(b, lines)
           ELSE IF tt
           THEN \E id \in EmbedIds, lines \in LineSeqs(UrlItems) :
                    embed_relay(b, [id |-> id, embeds |-> embeds,
                                    lines |-> IF embeds THEN lines ELSE <<>>])
           ELSE UNCHANGED relay_vars

\* on_message, the relay branches (546-630), in the order of the code.
on_message(b, chan, author, embeds) ==
    LET burp == /\ isMonitoring["burp"] /\ b = burp_scanner_bot
                /\ chan = "BURP" /\ author = "allowed" /\ embeds
        tt   == /\ isMonitoring["tt"] /\ b = tt_scanner_bot
                /\ author = "rick" /\ chan = "CMD" /\ embeds
        raw  == chan = "TT" /\ author # "rick" /\ b = tt_scanner_bot
    IN  /\ Delivered(b, burp \/ tt \/ raw)
        /\ IF burp
           THEN \E lines \in LineSeqs(BurpLines(budget.bad)) : burp_relay(b, lines)
           ELSE IF tt
           THEN \E id \in EmbedIds, lines \in LineSeqs(UrlItems) :
                    embed_relay(b, [id |-> id, embeds |-> embeds, lines |-> lines])
           ELSE IF raw
           THEN \E urls \in LineSeqs(UrlItems \ {SkipLine}), addr \in BOOLEAN :
                    raw_relay(b, [lines |-> urls, addr |-> addr])
           ELSE UNCHANGED relay_vars

\* The handler h wakes up from its sleep and sends; when the send raises
\* the coroutine ends, otherwise its loop goes on to the next await.
SendItem(h, ok) ==
    /\ ~exited
    /\ h \in handlers
    /\ IF ~ok
       THEN /\ handlers' = handlers \ {h}
            /\ UNCHANGED <<burp_cycle_processed, processed_tweets, hist>>
       ELSE LET sent == IF h.kind = "burp" /\ h.pend.pct < 0
                        THEN [hist EXCEPT !.neg_sent[h.pend.key] = Count(@)]
                        ELSE [hist EXCEPT !.sent[h.pend.key] = Count(@)]
                r == IF h.kind = "burp" THEN burp_scan(h.rest, burp_cycle_processed)
                     ELSE IF h.kind = "embed" THEN tweet_scan(h.rest, processed_tweets)
                     ELSE [seen |-> processed_tweets, rest |-> <<>>, pend |-> NoPend,
                           raised |-> FALSE]
                lines == IF h.kind = "raw" THEN <<>> ELSE h.rest
                left  == IF h.kind = "raw" THEN Fresh(h.rest, processed_tweets) ELSE {}
            IN  /\ IF h.kind = "burp"
                   THEN burp_cycle_processed' = r.seen /\ UNCHANGED processed_tweets
                   ELSE processed_tweets' = r.seen /\ UNCHANGED burp_cycle_processed
                /\ handlers' = IF r.pend = NoPend THEN handlers \ {h}
                               ELSE (handlers \ {h}) \cup
                                    {[h EXCEPT !.rest = r.rest, !.pend = r.pend]}
                /\ LET rec == Recorded(h.kind, lines, r) IN
                   hist' = [rec EXCEPT !.sent = sent.sent, !.neg_sent = sent.neg_sent,
                                       !.unsent = @ \cup left]
    /\ UNCHANGED <<runner, active_bots, bot_instances, command_bot, scanner_bot,
                   started, tloops, bot_loop, attach_task, isMonitoring, cooldown,
                   since_fire, fired_once, since_call, exited, consec, rogue_call,
                   auth_rejected, failover, budget, processed_tt_embeds,
                   env_vars, heartbeat, rebuilds>>

\* ------------------------------------------------------------------- Next
Outcomes == {"fetch_err", "no_cmd"} \cup AttemptOutcomes \cup FetchOutcomes

\* Supervision, trigger loops and time.
Next ==
    \/ \E b \in Bots : on_ready(b)
    \/ \E b \in Bots : check_and_attach_tasks(b)
    \/ \E b \in Bots : Disconnect(b)
    \/ \E b \in Bots, err \in {"auth", "net"} : LoginFails(b, err)
    \/ \E b \in Bots : Reconnect(b)
    \/ \E l \in tloops : LoopGate(l)
    \/ \E l \in tloops, o \in Outcomes : LoopCall(l, o)
    \/ Tick

\* With the control messages; no login fails.
NextCtl ==
    \/ \E b \in Bots : on_ready(b)
    \/ \E b \in Bots : check_and_attach_tasks(b)
    \/ \E b \in Bots : Disconnect(b)
    \/ \E b \in Bots : Reconnect(b)
    \/ \E l \in tloops : LoopGate(l)
    \/ \E l \in tloops, o \in Outcomes : LoopCall(l, o)
    \/ Tick
    \/ \E b \in Bots, chan \in {"TT", "BURP"}, author \in ControlAuthors, p \in Pipelines,
          cmd \in ControlCmds :
           \E arg \in ConfigArgs(p) \cup {<<>>} : on_control(b, chan, author, p, cmd, arg)

Spec == Init /\ [][Next]_vars

\* The state once the four identities are ready and their
\* check_and_attach_tasks have run: both pipelines were initialized by the
\* same on_ready, with commander c and scanner s, and c carries one loop of
\* each pipeline.
InitRunning(cds, bud) ==
    /\ runner        = [b \in Bots |-> "ready"]
    /\ active_bots   = Bots
    /\ bot_instances = Bots
    /\ \E c \in {"TRIBEIQ", "EYESINTHEHOOK"}, s \in {"HOODNARRATOR", "READYTOSPY"} :
         /\ command_bot = [p \in Pipelines |-> c]
         /\ scanner_bot = [p \in Pipelines |-> s]
         /\ started     = [p \in Pipelines |-> [b \in Bots |-> b = c]]
         /\ bot_loop    = [p \in Pipelines |-> [b \in Bots |-> IF b = c THEN 1 ELSE 0]]
         /\ \E ivl \in Intervals("tt"), var \in VariationSteps :
              tloops = {[id |-> 1, p |-> p, bot |-> c, fails |-> 0, pc |-> "idle",
                         age |-> 0, retries |-> 0, fetch_retries |-> 0,
                         fetch_attempts |-> 0,
                         interval |-> IF p = "tt" THEN ivl ELSE 0,
                         variation |-> var] : p \in Pipelines}
    /\ attach_task   = [b \in Bots |-> -1]
    /\ isMonitoring  = [p \in Pipelines |-> TRUE]
    /\ \E cd \in cds :
           cooldown = [p \in Pipelines |->
                          IF p = "tt" THEN Steps(cd) ELSE Steps(BURP_COOLDOWN_ENV)]
    /\ since_fire    = [p \in Pipelines |-> ElapsedCap]
    /\ fired_once    = [p \in Pipelines |-> FALSE]
    /\ since_call    = [p \in Pipelines |-> CallCooldown(p)]
    /\ exited        = FALSE
    /\ consec        = [p \in Pipelines |-> 0]
    /\ rogue_call    = FALSE
    /\ auth_rejected = {}
    /\ failover      = [p \in Pipelines |-> FALSE]
    /\ RelayInit
    /\ EnvInit
    /\ heartbeat     = update_hb
    /\ budget \in bud

\* Steady state, default COMMAND_DELAY; trigger cycles may fail.
InitRun ==
    InitRunning({30}, Budgets(MaxLost, MaxLoginFail, 0, MaxFail, Unlimited))

SpecRun == InitRun /\ [][Next]_vars

\* Steady state with COMMAND_DELAY above the per-command cooldown of
\* safe_command_call.
InitDelay ==
    InitRunning({1800}, Budgets(MaxLost, MaxLoginFail, 0, 0, Unlimited))

SpecDelay == InitDelay /\ [][Next]_vars

\* Steady state with control messages.
InitCtl ==
    InitRunning({30}, Budgets(MaxLost, 0, MaxCtl, 0, MaxStartCycles))

SpecCtl == InitCtl /\ [][NextCtl]_vars

\* The relay handlers while an identity may be lost; no trigger cycles.
NextRelay ==
    \/ \E b \in Bots, chan \in Chans, author \in Authors, embeds \in BOOLEAN :
           on_message_edit(b, chan, author, embeds)
    \/ \E b \in Bots, chan \in Chans, author \in Authors, embeds \in BOOLEAN :
           on_message(b, chan, author, embeds)
    \/ \E h \in handlers, ok \in BOOLEAN : SendItem(h, ok)
    \/ \E b \in Bots : Disconnect(b)

InitRelay ==
    InitRunning({30}, {[b EXCEPT !.msgs = MaxMsgs] : b \in Budgets(MaxLost, 0, 0, 0, 0)})

SpecRelay == InitRelay /\ [][NextRelay]_vars

\* The relay handlers for one event whose lines may hold a percentage that
\* float() rejects.
InitParse ==
    InitRunning({30}, {[b EXCEPT !.msgs = 1, !.bad = 1] : b \in Budgets(MaxLost, 0, 0, 0, 0)})

SpecParse == InitParse /\ [][NextRelay]_vars

\* ---------------------------------------------------------------- fairness
\* What the event loop guarantees: time passes, a sleeping runner wakes up,
\* a connecting identity that is not refused becomes ready, a scheduled
\* check_and_attach_tasks runs, a started task loop takes its passes and a
\* pass that has fired completes.  Losing an identity and a failing login
\* are not forced.
InitFair ==
    InitRunning({30}, Budgets(MaxLost, MaxLoginFail, 0, 0, Unlimited))

Fairness ==
    /\ WF_vars(Tick)
    /\ WF_vars(\E l \in tloops : LoopGate(l))
    /\ WF_vars(\E l \in tloops, o \in Outcomes : LoopCall(l, o))
    /\ WF_vars(\E b \in Bots : Reconnect(b))
    /\ WF_vars(\E b \in Bots : on_ready(b))
    /\ WF_vars(\E b \in Bots : check_and_attach_tasks(b))

FairSpec == InitFair /\ [][Next]_vars /\ Fairness

\* Steady state in which no identity is lost: the trigger loops and time
\* only.
NextSteady ==
    \/ \E l \in tloops : LoopGate(l)
    \/ \E l \in tloops, o \in Outcomes : LoopCall(l, o)
    \/ Tick

InitSteady ==
    InitRunning(COMMAND_DELAY_VALUES, Budgets(0, 0, 0, MaxFail, Unlimited))

SpecSteady == InitSteady /\ [][NextSteady]_vars

\* Steady state in which the attempts of cmd.__call__ may fail.
InitRetry ==
    InitRunning({30}, {[b EXCEPT !.att = MaxAtt] : b \in Budgets(0, 0, 0, 0, Unlimited)})

SpecRetry == InitRetry /\ [][NextSteady]_vars

\* Steady state with COMMAND_DELAY below the per-command cooldown, while an
\* identity may be lost and one attempt of a call may fail.
NextCool ==
    \/ \E b \in Bots : on_ready(b)
    \/ \E b \in Bots : check_and_attach_tasks(b)
    \/ \E b \in Bots : Disconnect(b)
    \/ \E b \in Bots : Reconnect(b)
    \/ \E l \in tloops : LoopGate(l)
    \/ \E l \in tloops, o \in Outcomes : LoopCall(l, o)
    \/ Tick

InitCool ==
    InitRunning({30}, {[b EXCEPT !.att = 1] : b \in Budgets(MaxLost, 0, 0, 0, Unlimited)})

SpecCool == InitCool /\ [][NextCool]_vars

\* Steady state with one "start" or "stop" of an allowed author, one source
\* message and the trigger loops.
NextStop ==
    \/ \E l \in tloops : LoopGate(l)
    \/ \E l \in tloops, o \in Outcomes : LoopCall(l, o)
    \/ Tick
    \/ \E b \in Bots, p \in Pipelines, cmd \in {"start", "stop"} :
           on_control(b, ControlChan(p), "allowed", p, cmd, <<>>)
    \/ \E b \in Bots, chan \in Chans, author \in Authors, embeds \in BOOLEAN :
           on_message_edit(b, chan, author, embeds)
    \/ \E b \in Bots, chan \in Chans, author \in Authors, embeds \in BOOLEAN :
           on_message(b, chan, author, embeds)
    \/ \E h \in handlers, ok \in BOOLEAN : SendItem(h, ok)

InitStop ==
    InitRunning({30}, {[b EXCEPT !.msgs = 1] : b \in Budgets(0, 0, MaxCtl, 0, MaxStartCycles)})

SpecStop == InitStop /\ [][NextStop]_vars

\* Steady state in which one burp embed is delivered to the four identities
\* while the trigger loops run.
NextEvent ==
    \/ \E l \in tloops : LoopGate(l)
    \/ \E l \in tloops, o \in Outcomes : LoopCall(l, o)
    \/ Tick
    \/ \E lines \in LineSeqs(BurpItems) : Post(lines)
    \/ \E b \in Bots : Deliver(b)
    \/ \E h \in handlers, ok \in BOOLEAN : SendItem(h, ok)

InitEvent ==
    InitRunning({30}, {[b EXCEPT !.msgs = 1] : b \in Budgets(0, 0, 0, 0, MaxStartCycles)})

SpecEvent == InitEvent /\ [][NextEvent]_vars

\* Steady state in which attempts of the command fetch fail.
InitFetch ==
    InitRunning({30}, {[b EXCEPT !.fetch = MaxFetch] : b \in Budgets(0, 0, 0, 0, Unlimited)})

SpecFetch == InitFetch /\ [][NextSteady]_vars

\* From the start of the program with no identity lost, and the health
\* check run at any moment.
NextHealth ==
    \/ \E b \in Bots : on_ready(b)
    \/ \E b \in Bots : check_and_attach_tasks(b)
    \/ \E l \in tloops : LoopGate(l)
    \/ \E l \in tloops, o \in Outcomes : LoopCall(l, o)
    \/ Tick
    \/ HealthCheck

InitHealth == InitProgram({30}, Budgets(0, 0, 0, 0, MaxStartCycles))

SpecHealth == InitHealth /\ [][NextHealth]_vars

\* ------------------------------------------------------------------ claims
Roles(b) == {p \in Pipelines : command_bot[p] = b \/ scanner_bot[p] = b}

\* The pipeline whose trigger cycles are not limited.
Cycling(p) == budget.cycles[p] < 0

\* A trigger command of p is invoked in this step (safe_command_call passes
\* its cooldown and records the time of the call).
Invoked(p) == since_call[p] # 0 /\ since_call'[p] = 0

\* A trigger cycle of p succeeds in this step: safe_command_call returns a
\* result to a loop of p, at its first attempt or at a later one.
Succeeded(p) ==
    \E l \in tloops :
        /\ l.p = p
        /\ l.pc \in {"firing", "retrying"}
        /\ l.pc = "firing" => Invoked(p)
        /\ LoopSuccess(l)

NoneLost == runner = [b \in Bots |-> "ready"]

\* C1: when the commander of a pipeline is lost while another commander
\* candidate and a scanner candidate are active, the role is reassigned and
\* the trigger of that pipeline eventually fires again (a task loop of the
\* pipeline passes its test), with no restart and no control message.
C1_FailoverFiresAgain ==
    \A p \in Pipelines : (failover[p] /\ Cycling(p)) ~> ~failover[p]

\* C2: three consecutive failed trigger cycles of a pipeline, with no
\* success in between, have raised the fatal exit.
C2_ThreeFailuresExit ==
    \A p \in Pipelines : consec[p] >= FAIL_THRESHOLD => exited

\* C3: in each pipeline the commander and the scanner, when both are
\* assigned, are different identities.
C3_RoleExclusivity ==
    \A p \in Pipelines :
        (command_bot[p] # None /\ scanner_bot[p] # None)
            => command_bot[p] # scanner_bot[p]

\* Both roles are assigned after an identity was lost and a cycle rotated them.
C3_Witness ==
    \E p \in Pipelines :
        /\ command_bot[p] # None /\ scanner_bot[p] # None
        /\ fired_once[p]
        /\ budget.lost = 0
        /\ \E b \in Bots : runner[b] # "ready"

\* C4: a tweet URL, and a token through its non-negative occurrences, is
\* sent at most once: the first claim of a key is accepted and every later
\* non-negative claim of it is rejected, whatever handlers and identities
\* interleave.
C4_DedupIdempotence ==
    /\ \A k \in Tokens \cup Urls : hist.sent[k] <= 1
    /\ \A k \in Tokens : hist.sent[k] > 0 => k \in burp_cycle_processed
    /\ \A k \in Urls : hist.sent[k] > 0 => k \in processed_tweets
    /\ \A h \in handlers :
         (h.kind # "burp" \/ h.pend.pct >= 0) => hist.sent[h.pend.key] = 0

\* A token and a URL were each sent once and a later occurrence of each was
\* rejected.
C4_Witness ==
    /\ \E k \in Tokens : hist.sent[k] = 1 /\ k \in hist.dropped
    /\ \E k \in Urls : hist.sent[k] = 1 /\ k \in hist.dropped

\* C5: a negative occurrence that the scanner's handler comes to is never
\* passed over, claimed before or not; and when the first claim of a token
\* was a negative one, no non-negative occurrence of it is ever sent.
C5_SignOverride ==
    /\ ~hist.neg_lost
    /\ \A k \in Tokens :
         /\ hist.neg_sent[k] > 0 => k \in burp_cycle_processed
         /\ hist.first[k] = "neg" =>
              /\ hist.sent[k] = 0
              /\ \A h \in handlers :
                   (h.kind = "burp" /\ h.pend.key = k) => h.pend.pct < 0

\* A token was claimed by a negative occurrence, was sent twice as a
\* negative occurrence, and a non-negative occurrence of it was rejected.
C5_Witness ==
    \E k \in Tokens :
        /\ hist.first[k] = "neg"
        /\ hist.neg_sent[k] = 2
        /\ k \in hist.dropped

\* C6: once a successful trigger of a pipeline is recorded, no trigger
\* command of that pipeline is invoked before the cooldown floor has passed
\* since the recorded time.
C6_CooldownFloor ==
    [][\A p \in Pipelines :
          (Invoked(p) /\ fired_once[p]) => since_fire[p] >= cooldown[p]]_vars

\* C7: with every identity connected throughout and trigger cycles of the
\* pipeline succeeding again and again, every command candidate eventually
\* is the commander.
C7_RotationLiveness ==
    \A p \in Pipelines :
        []<><<Succeeded(p)>>_vars
            => \A i \in 1..Len(command_candidates(p)) :
                   <>(command_bot[p] = command_candidates(p)[i])

\* The second candidate is the commander after a successful cycle, with
\* no identity lost: the first one was the commander before the rotation.
C7_Witness ==
    \E p \in Pipelines :
        /\ fired_once[p]
        /\ command_bot[p] = command_candidates(p)[2]
        /\ NoneLost

\* C8: a trigger command is invoked only by the identity that is the
\* commander of the pipeline at that moment and that is connected.
C8_OnlyCommanderInvokes == ~rogue_call

C10_CounterPerPipeline ==
    \A l \in tloops :
        (l.bot = command_bot[l.p] /\ l.id = bot_loop[l.p][l.bot])
            => l.fails = consec[l.p]

\* C11: the heartbeat file is written in a step only when a trigger cycle
\* succeeds in that step, and every successful cycle writes it.
C11_HeartbeatOnlyOnSuccess ==
    [][/\ (heartbeat' # heartbeat /\ heartbeat' = update_hb)
            => \E p \in Pipelines : Succeeded(p)
       /\ \A p \in Pipelines : Succeeded(p) => heartbeat' = update_hb]_vars

\* C12: a control command of an allowed sender in the control channel of
\* its pipeline was answered with a message, whatever its arguments.
C12_ControlAcknowledged ==
    (ctl_last.seen /\ ctl_last.auth) => ctl_last.reply

\* C13: handling a control message of a sender outside the allow-list (or
\* outside the control channel) changes no monitoring flag, no cooldown
\* parameter and no trigger task, and sends no reply.
C13_UnauthorizedIgnored ==
    [][(budget'.ctl # budget.ctl /\ ~ctl_last'.auth)
          => /\ ~ctl_last'.reply
             /\ UNCHANGED <<isMonitoring, cooldown, tloops, started, bot_loop,
                            command_bot, scanner_bot>>]_vars

\* A control command of a sender outside the allow-list was handled.
C13_Witness ==
    /\ ctl_last.seen
    /\ ~ctl_last.auth

\* C14: while an item waits for its pre-send delay, no item of another key
\* that is eligible for relay is held back behind it in the same handler.
C14_NoItemBehindDelay ==
    \A h \in handlers :
        \A i \in 1..Len(h.rest) :
            \/ h.rest[i].key = None
            \/ h.rest[i].key = h.pend.key
            \/ IF h.kind = "burp"
               THEN burp_seen(h.rest[i].key, h.rest[i].pct, burp_cycle_processed)
               ELSE tweet_seen(h.rest[i].key, h.rest[i].pct, processed_tweets)

C16_OnlyLostRolesCleared ==
    [][\A b \in Bots :
          (runner[b] # "cooloff" /\ runner'[b] = "cooloff") =>
              \A p \in Pipelines :
                  /\ command_bot[p] \in active_bots \ {b}
                         => command_bot'[p] = command_bot[p]
                  /\ scanner_bot[p] \in active_bots \ {b}
                         => scanner_bot'[p] = scanner_bot[p]]_vars

\* The trigger loops of pipeline p in a role state.
LoopsOf(loops, p) == {l \in loops : l.p = p /\ l.pc # "closed"}

\* C17: after a rotation that changes the commander of a pipeline exactly
\* one trigger loop of the pipeline runs and it is bound to the new
\* commander; a rotation that keeps the commander keeps the running loops.
C17_RotationMovesTask ==
    [][\A p \in Pipelines :
          Succeeded(p) =>
              IF command_bot'[p] # command_bot[p]
              THEN /\ Cardinality(LoopsOf(tloops', p)) = 1
                   /\ \A l \in LoopsOf(tloops', p) : l.bot = command_bot'[p]
              ELSE {[id |-> l.id, bot |-> l.bot] : l \in LoopsOf(tloops', p)}
                       = {[id |-> l.id, bot |-> l.bot] : l \in LoopsOf(tloops, p)}]_vars

\* C18: no trigger loop is left running on the bot object of an identity
\* that has disconnected.
C18_LoopsCancelledOnDisconnect ==
    \A l \in tloops : l.pc # "closed"

\* The step is an attempt of cmd.__call__ inside safe_command_call, made for
\* loop l, that ends with outcome o.
InCall(l, o) ==
    /\ l \in tloops
    /\ o \in AttemptOutcomes
    /\ l.pc = "retrying" \/ (l.pc = "firing" /\ ~(since_call[l.p] < CallCooldown(l.p)))
    /\ LoopCall(l, o)

\* The loop l after the step, when it still runs.
After(l) == {m \in tloops' : m.id = l.id /\ m.p = l.p /\ m.bot = l.bot}

\* C19: a failed attempt that is retried changes neither the failure counter
\* nor the HTTP client; the attempt that exhausts the retries adds exactly
\* one to the counter of the loop and rebuilds the client once; the fatal
\* exit is taken only after FAIL_THRESHOLD failed cycles.
C19_RetriesIndependentOfCounter ==
    /\ [](exited => rebuilds >= FAIL_THRESHOLD)
    /\ [][\A l \in tloops :
             InCall(l, "net_err") =>
                 IF l.retries + 1 < MAX_RETRIES
                 THEN /\ rebuilds' = rebuilds
                      /\ ~exited'
                      /\ \A m \in After(l) : m.fails = l.fails
                 ELSE /\ rebuilds' = rebuilds + 1
                      /\ After(l) # {}
                      /\ \A m \in After(l) : m.fails = l.fails + 1]_vars

\* One call has used up its three attempts: one failure is counted, the
\* client was rebuilt once and the process runs on.
C19_Witness ==
    /\ budget.att = MaxAtt - MAX_RETRIES
    /\ rebuilds = 1
    /\ ~exited
    /\ \E l \in tloops : l.fails = 1 /\ l.pc = "idle"

\* C20: a call in progress has failed fewer than max_retries times; a
\* result is returned to the loop at once; a transport error is followed by
\* another attempt while attempts remain and is raised to the loop after the
\* last one; any other error is not retried and leaves the loop at once.
C20_BoundedRetries ==
    /\ [](\A l \in tloops : /\ l.retries < MAX_RETRIES
                             /\ l.pc = "retrying" <=> l.retries > 0)
    /\ [][\A l \in tloops :
             /\ InCall(l, "ok") => Succeeded(l.p)
             /\ InCall(l, "net_err") =>
                    /\ After(l) # {}
                    /\ \A m \in After(l) :
                           IF l.retries + 1 < MAX_RETRIES
                           THEN m.pc = "retrying" /\ m.retries = l.retries + 1
                           ELSE m.pc = "idle" /\ m.fails = l.fails + 1
             /\ InCall(l, "other_err") => After(l) = {}]_vars

\* A loop whose earlier call was raised after its last attempt is in a call
\* again, with one attempt left.
C20_Witness ==
    \E l \in tloops :
        /\ l.pc = "retrying"
        /\ l.retries = MAX_RETRIES - 1
        /\ l.fails = 1

\* C21: a call of safe_fetch_commands ends within max_retries attempts of the
\* underlying fetch, whatever their outcomes: no pass is still in the fetch
\* loop after more attempts than that.
C21_FetchBounded ==
    \A l \in tloops : l.pc = "firing" => l.fetch_attempts <= FETCH_MAX_RETRIES

\* The call of loop l is discarded in this step: safe_command_call returns
\* None inside its cooldown.
Discarded(l) ==
    /\ l \in tloops
    /\ l.pc = "firing"
    /\ since_call[l.p] < CallCooldown(l.p)
    /\ LoopCall(l, "ok")

\* C22: a step in which the trigger call of a loop fails with a transport
\* error (at any attempt, or at the fetch before it) or is discarded leaves
\* the last fire time of the pipeline, the interval and jitter of the loop,
\* the roles and the heartbeat as they were.
C22_NothingRecordedWithoutResult ==
    [][\A l \in tloops :
          (InCall(l, "net_err") \/ Discarded(l)
             \/ (l.pc = "firing" /\ LoopCall(l, "fetch_err"))) =>
              /\ since_fire'[l.p] = since_fire[l.p]
              /\ fired_once'[l.p] = fired_once[l.p]
              /\ \A m \in After(l) : m.interval = l.interval /\ m.variation = l.variation
              /\ command_bot' = command_bot
              /\ scanner_bot' = scanner_bot
              /\ heartbeat' = heartbeat]_vars

\* The first call of a pipeline failed after its last attempt: the pipeline
\* still has no fire time and the heartbeat has aged.
C22_Witness ==
    \E l \in tloops :
        /\ l.fails = 1
        /\ since_call[l.p] = 0
        /\ ~fired_once[l.p]
        /\ heartbeat > update_hb

\* C23: when a pass of any loop of a pipeline reaches safe_command_call less
\* than 180 s (tt) or 600 s (burp) after the last call that was let through,
\* the call returns None and nothing is invoked: no attempt, no failure, no
\* result, the time of the last call stays.  Otherwise the call is let
\* through and its time is recorded.  So two calls that are let through are
\* at least the cooldown apart.
C23_HardCooldown ==
    [][\A l \in tloops :
          (l.pc = "firing" /\ \E o \in AttemptOutcomes : LoopCall(l, o)) =>
              IF since_call[l.p] < CallCooldown(l.p)
              THEN /\ \A m \in After(l) : m.pc = "idle" /\ m.fails = l.fails
                   /\ After(l) # {}
                   /\ UNCHANGED <<since_call, since_fire, fired_once, command_bot,
                                  scanner_bot, heartbeat, rebuilds, budget>>
              ELSE since_call'[l.p] = 0]_vars

\* Two loops of one pipeline run on different identities; the call of one
\* was let through at this moment and the pass of the other is about to
\* reach safe_command_call.
C23_Witness ==
    \E l1, l2 \in tloops :
        /\ l1.p = l2.p
        /\ l1.bot # l2.bot
        /\ l1.pc = "retrying"
        /\ l2.pc = "firing"
        /\ since_call[l1.p] = 0

\* C24: the lines of a TT source message are gone through by at most one
\* handler, and by exactly one once its id is recorded: the handler that
\* recorded the id is the one that processes the content.
C24_EmbedProcessedOnce ==
    \A id \in EmbedIds :
        /\ hist.runs[id] <= 1
        /\ id \in processed_tt_embeds => hist.runs[id] = 1

\* C25: no handler whose sends all succeeded has ended with a URL of its
\* event that was neither sent nor recorded as sent before.
C25_NoItemLeftUnsent == hist.unsent = {}

\* C26: a line whose percentage cannot be parsed takes no other line with
\* it: no handler has ended on such a line with a token behind it that it
\* would have relayed.
C26_OnlyMalformedLineSkipped == hist.unparsed = {}

\* The pipeline a relay handler of the given kind belongs to.
PipelineOf(kind) == IF kind = "burp" THEN "burp" ELSE "tt"

\* C27: while the monitoring flag of a pipeline is off no trigger command
\* of the pipeline is invoked, and no event delivered then starts a relay
\* handler of the pipeline.
C27_NothingWhileOff ==
    [][/\ \A p \in Pipelines : Invoked(p) => isMonitoring[p]
       /\ budget'.msgs # budget.msgs =>
              \A h \in handlers' \ handlers : isMonitoring[PipelineOf(h.kind)]]_vars

\* C28: a config command of an allowed author that is not answered, because
\* a word is missing or does not convert, leaves COMMAND_DELAY, BURP_COOLDOWN,
\* COPY_DELAY_MIN and COPY_DELAY_MAX all as they were.
C28_InvalidConfigChangesNothing ==
    [][(budget'.ctl # budget.ctl /\ ctl_last'.auth /\ ~ctl_last'.reply)
          => UNCHANGED <<cooldown, copy_delay>>]_vars

\* An allowed author's config command was not answered and the settings
\* are the ones of the start.
C28_Witness ==
    /\ ctl_last.seen /\ ctl_last.auth /\ ~ctl_last.reply
    /\ cooldown["tt"] = Steps(30)
    /\ copy_delay = [min |-> COPY_DELAY_MIN, max |-> COPY_DELAY_MAX]

\* C29: at most one trigger task loop of each pipeline runs.
C29_OneLoopPerPipeline ==
    \A p \in Pipelines : Cardinality(LoopsOf(tloops, p)) <= 1

\* C30: once the handler of every connected identity has run for a burp
\* embed that holds a token of negative delta, exactly one identity has
\* relayed from it.
C30_ExactlyOneScanner ==
    (/\ event.seen = {b \in Bots : runner[b] = "ready"}
     /\ \E i \in 1..Len(event.lines) :
            event.lines[i].key # None /\ event.lines[i].pct < 0)
        => Cardinality(event.by) = 1

\* C31: every assigned commander and scanner of every pipeline is in
\* active_bots, is an identity whose runner is connected, and is in the
\* candidate list of its role.
C31_RolesHeldByActiveCandidates ==
    \A p \in Pipelines :
        /\ command_bot[p] # None =>
               /\ command_bot[p] \in active_bots
               /\ runner[command_bot[p]] = "ready"
               /\ InSeq(command_bot[p], command_candidates(p))
        /\ scanner_bot[p] # None =>
               /\ scanner_bot[p] \in active_bots
               /\ runner[scanner_bot[p]] = "ready"
               /\ InSeq(scanner_bot[p], scanner_candidates(p))

\* A scanner candidate is in its cool-off after it was lost, and the
\* scanner role of a pipeline is held by the other candidate.
C31_Witness ==
    \E b \in Bots, p \in Pipelines :
        /\ runner[b] = "cooloff"
        /\ InSeq(b, scanner_candidates(p))
        /\ scanner_bot[p] \notin {None, b}
        /\ command_bot[p] # None

====
